---- MODULE Spec2Model ----
(***************************************************************************)
(* Conversation context manager of the conversational analytics system:   *)
(* ConversationMemory (src/conversation/memory.py) with its bounded turn   *)
(* history, derived context snapshot, turn counter, JSON persistence and   *)
(* follow-up detection / rewriting.                                        *)
(*                                                                         *)
(* Python values are represented as follows: a str is a TLA+ string, a     *)
(* list is a sequence, a dict is a function over its keys (a record), and  *)
(* None is the reserved string below.  A result cell is a record           *)
(* [t |-> python type, v |-> str(value)], so that values json cannot       *)
(* encode natively (Decimal, date) are told apart from strings.            *)
(***************************************************************************)
EXTENDS Integers, Sequences, FiniteSets, TLC

\* ---------------------------------------------------------------- bounds
MaxTurnsBound == 2      \* max_turns ranges over 1..MaxTurnsBound
MaxAdds == 4            \* add_turn calls in one behaviour
MaxAsks == 2            \* add_turn calls in one behaviour of SpecAsk

\* ------------------------------------------------------ program constants
ContextRows == 10       \* results[:10]
LlmTurns == 5           \* self.history[-5:]

None == "<None>"
EmptyDict == [k \in {} |-> ""]

\* dict.get(k, default)
Get(d, k, default) == IF k \in DOMAIN d THEN d[k] ELSE default

Min(a, b) == IF a < b THEN a ELSE b
Max(a, b) == IF a > b THEN a ELSE b

\* s[start:] of a Python list, start possibly negative
PySliceFrom(s, start) ==
    LET n == Len(s)
        from == IF start < 0 THEN Max(n + start, 0) ELSE Min(start, n)
    IN  SubSeq(s, from + 1, n)

\* s[:stop] of a Python list, stop >= 0
PySliceTo(s, stop) == SubSeq(s, 1, Min(stop, Len(s)))

\* ---------------------------------------------------------------- strings
\* the questions asked of the memory
Questions ==
    { "show me by month and by region",
      "By Region and by year",
      "by segment this year vs last year",
      "by customer last month this year",
      "premium gold last month",
      "total revenue",
      "What About loans",
      "what about Gold",
      "profit",
      "" }

UpperAlpha == "ABCDEFGHIJKLMNOPQRSTUVWXYZ"
LowerAlpha == "abcdefghijklmnopqrstuvwxyz"

LowerChar(c) ==
    IF \E i \in 1..Len(UpperAlpha) : SubSeq(UpperAlpha, i, i) = c
    THEN LET i == CHOOSE j \in 1..Len(UpperAlpha) : SubSeq(UpperAlpha, j, j) = c
         IN  SubSeq(LowerAlpha, i, i)
    ELSE c

RECURSIVE LowerScan(_)
\* str.lower(), character by character
LowerScan(s) ==
    IF Len(s) = 0 THEN ""
    ELSE LowerChar(SubSeq(s, 1, 1)) \o LowerScan(SubSeq(s, 2, Len(s)))

\* LowerScan of the questions, evaluated once
LowerOfQuestion == [q \in Questions |-> LowerScan(q)]

\* str.lower()
Lower(s) == IF s \in Questions THEN LowerOfQuestion[s] ELSE LowerScan(s)

\* p in s, position by position
ContainsScan(s, p) ==
    \E i \in 1..(Len(s) - Len(p) + 1) : SubSeq(s, i, i + Len(p) - 1) = p

\* the phrases the memory looks for in a question
Phrases ==
    { "show me more", "more details", "what about",
      "instead", "also", "and what", "how about",
      "the same", "that", "this", "it", "those",
      "break it down", "drill down", "filter",
      "last year", "this year", "by month", "by region",
      "top", "highest", "lowest", "compare",
      "why", "which one", "who",
      "by year", "by customer", "by segment", "last month",
      "premium", "gold" }

\* ContainsScan of the lower-cased questions and the phrases, evaluated once
PhraseInQuestion ==
    [q \in {LowerOfQuestion[x] : x \in Questions} |->
        [p \in Phrases |-> ContainsScan(q, p)]]

\* p in s
Contains(s, p) ==
    IF s \in DOMAIN PhraseInQuestion /\ p \in Phrases
    THEN PhraseInQuestion[s][p]
    ELSE ContainsScan(s, p)

RECURSIVE Join(_, _)
\* sep.join(parts)
Join(sep, parts) ==
    IF Len(parts) = 0 THEN ""
    ELSE IF Len(parts) = 1 THEN parts[1]
    ELSE parts[1] \o sep \o Join(sep, Tail(parts))

RECURSIVE MapRepr(_)
MapRepr(l) == IF Len(l) = 0 THEN <<>> ELSE <<"'" \o Head(l) \o "'">> \o MapRepr(Tail(l))

\* str(list of str)
ReprStrList(l) == "[" \o Join(", ", MapRepr(l)) \o "]"

\* ------------------------------------------------------------ result rows
JsonNative == {"int", "str"}

ReprCell(c) ==
    IF c.t = "int" THEN c.v
    ELSE IF c.t = "str" THEN "'" \o c.v \o "'"
    ELSE c.t \o "('" \o c.v \o "')"

\* str(row) of a one-column row dict
ReprRow(r) == "{'" \o r.col \o "': " \o ReprCell(r) \o "}"

IntRow(i) == [col |-> "n", t |-> "int", v |-> ToString(i)]
Rows12 == [i \in 1..12 |-> IntRow(i)]
DecimalRow == [col |-> "total", t |-> "Decimal", v |-> "10.5"]

\* ---------------------------------------------------------------- inputs
FullIntent == [metrics |-> <<"total_transactions">>, dimensions |-> <<"branch">>,
               filters |-> <<"amount > 100">>, group_by |-> <<"region">>,
               time_period |-> "d_date.year = 2024", limit |-> 5,
               original_question |-> "total revenue"]
BlankIntent == [metrics |-> <<>>, dimensions |-> <<>>, filters |-> <<>>,
                group_by |-> <<>>, time_period |-> None, limit |-> None,
                original_question |-> "profit"]
PartialIntent == [metrics |-> <<"total_deposits", "total_withdrawals">>]

TurnInputs ==
    { [question |-> "total revenue", intent |-> FullIntent, sql |-> "SELECT 1",
       results |-> Rows12, response |-> "twelve"],
      [question |-> "profit", intent |-> BlankIntent, sql |-> "SELECT 2",
       results |-> <<IntRow(7), IntRow(8)>>, response |-> "two"],
      [question |-> "deposits", intent |-> PartialIntent, sql |-> "SELECT 3",
       results |-> <<DecimalRow>>, response |-> "one"],
      [question |-> "", intent |-> EmptyDict, sql |-> "",
       results |-> <<>>, response |-> ""] }

\* ----------------------------------------------------------- follow-ups
follow_up_indicators ==
    << "show me more", "more details", "what about",
       "instead", "also", "and what", "how about",
       "the same", "that", "this", "it", "those",
       "break it down", "drill down", "filter",
       "last year", "this year", "by month", "by region",
       "top", "highest", "lowest", "compare",
       "why", "which one", "who" >>

RECURSIVE AnyIndicator(_, _, _)
\* any(indicator in question_lower for indicator in indicators): the
\* generator is consumed in list order and stops at the first hit
AnyIndicator(question_lower, indicators, i) ==
    IF i > Len(indicators) THEN FALSE
    ELSE IF Contains(question_lower, indicators[i]) THEN TRUE
    ELSE AnyIndicator(question_lower, indicators, i + 1)

\* a detection that skips the check for an empty history
IsFollowUpUnguarded(h, question) ==
    AnyIndicator(Lower(question), follow_up_indicators, 1)

\* a detection that compares the question as typed
IsFollowUpCaseSensitive(h, question) ==
    IF Len(h) = 0 THEN FALSE
    ELSE AnyIndicator(question, follow_up_indicators, 1)

\* is_follow_up
is_follow_up(h, question) ==
    IF Len(h) = 0 THEN FALSE
    ELSE AnyIndicator(Lower(question), follow_up_indicators, 1)

\* get_last_intent
get_last_intent(h) == IF Len(h) > 0 THEN h[Len(h)].parsed_intent ELSE None

\* a chain that tries 'by region' before the other grouping phrases
ResolveGroupByRegionFirst(question_lower, group_by) ==
    IF Contains(question_lower, "by region") THEN <<"region">>
    ELSE IF Contains(question_lower, "by month") THEN <<"month_name">>
    ELSE IF Contains(question_lower, "by year") THEN <<"year">>
    ELSE IF Contains(question_lower, "by customer") \/ Contains(question_lower, "by segment")
         THEN <<"customer_segment">>
    ELSE group_by

\* the if/elif chain on the grouping phrases
ResolveGroupBy(question_lower, group_by) ==
    IF Contains(question_lower, "by month") THEN <<"month_name">>
    ELSE IF Contains(question_lower, "by year") THEN <<"year">>
    ELSE IF Contains(question_lower, "by region") THEN <<"region">>
    ELSE IF Contains(question_lower, "by customer") \/ Contains(question_lower, "by segment")
         THEN <<"customer_segment">>
    ELSE group_by

\* a chain that forgets the previous time predicate when no phrase matches
ResolveTimePeriodForgets(question_lower, time_period) ==
    IF Contains(question_lower, "last year") THEN "d_date.year = YEAR(CURRENT_DATE) - 1"
    ELSE IF Contains(question_lower, "this year") THEN "d_date.year = YEAR(CURRENT_DATE)"
    ELSE IF Contains(question_lower, "last month") THEN "d_date.month = MONTH(CURRENT_DATE) - 1"
    ELSE None

\* the if/elif chain on the time phrases
ResolveTimePeriod(question_lower, time_period) ==
    IF Contains(question_lower, "last year") THEN "d_date.year = YEAR(CURRENT_DATE) - 1"
    ELSE IF Contains(question_lower, "this year") THEN "d_date.year = YEAR(CURRENT_DATE)"
    ELSE IF Contains(question_lower, "last month") THEN "d_date.month = MONTH(CURRENT_DATE) - 1"
    ELSE time_period

\* a chain that replaces the filters by the segment predicate
ResolveFiltersReplacing(question_lower, filters) ==
    IF Contains(question_lower, "premium") THEN <<"customer_segment = 'Premium'">>
    ELSE IF Contains(question_lower, "gold") THEN <<"customer_segment = 'Gold'">>
    ELSE filters

\* the if/elif chain on the segment words
ResolveFilters(question_lower, filters) ==
    IF Contains(question_lower, "premium") THEN Append(filters, "customer_segment = 'Premium'")
    ELSE IF Contains(question_lower, "gold") THEN Append(filters, "customer_segment = 'Gold'")
    ELSE filters

\* resolve_follow_up
resolve_follow_up(h, ctx, question) ==
    IF Len(h) = 0 THEN EmptyDict
    ELSE LET last_intent == get_last_intent(h)
         IN  IF DOMAIN last_intent = {} THEN EmptyDict
             ELSE LET question_lower == Lower(question)
                  IN  [metrics |-> Get(last_intent, "metrics", <<>>),
                       dimensions |-> Get(last_intent, "dimensions", <<>>),
                       group_by |-> ResolveGroupBy(question_lower,
                                                   Get(last_intent, "group_by", <<>>)),
                       filters |-> ResolveFilters(question_lower,
                                                  Get(last_intent, "filters", <<>>)),
                       time_period |-> ResolveTimePeriod(question_lower,
                                                         Get(last_intent, "time_period", None)),
                       is_follow_up |-> TRUE,
                       base_question |-> Get(ctx, "last_question", "")]

\* the stored list itself, where the code takes a copy
SameList(l) == [items |-> l, stored |-> TRUE]

\* list.copy(): the items in a new list, which is not the stored one
CopyOfList(l) == [items |-> l, stored |-> FALSE]

\* the history after resolve_follow_up has run: resolved['filters'].append
\* reaches the filters of the last turn only if the list it appends to is
\* the stored one
HistoryAfterResolve(h, question) ==
    IF Len(h) = 0 THEN h
    ELSE LET last_intent == get_last_intent(h)
         IN  IF "filters" \notin DOMAIN last_intent THEN h
             ELSE LET ref == CopyOfList(last_intent.filters)
                  IN  IF ref.stored
                      THEN [h EXCEPT ![Len(h)].parsed_intent.filters =
                                         ResolveFilters(Lower(question), ref.items)]
                      ELSE h

NoConversation == "No previous conversation."

RECURSIVE TurnLines(_)
TurnLines(turns) ==
    IF Len(turns) = 0 THEN <<>>
    ELSE << "\nUser: " \o Head(turns).user_question,
            "Result: " \o Head(turns).results_summary >> \o TurnLines(Tail(turns))

\* get_context_for_llm
get_context_for_llm(h, ctx) ==
    IF Len(h) = 0 THEN NoConversation
    ELSE LET context_lines ==
                 IF DOMAIN ctx = {} THEN <<>>
                 ELSE << "\nCurrent context:",
                         "- Last metrics: " \o ReprStrList(Get(ctx, "last_metrics", <<>>)),
                         "- Last grouping: " \o ReprStrList(Get(ctx, "last_dimensions", <<>>)) >>
                      \o (IF Len(Get(ctx, "last_filters", <<>>)) > 0
                          THEN << "- Active filters: " \o ReprStrList(ctx.last_filters) >>
                          ELSE <<>>)
         IN  Join("\n", <<"Previous conversation:">>
                        \o TurnLines(PySliceFrom(h, -LlmTurns))
                        \o context_lines)


\* ---------------------------------------------------------- semantic layer
\* Optional[int]: None, or an int
NoLimit == [none |-> TRUE, n |-> 0]
Limit(n) == [none |-> FALSE, n |-> n]

\* what get_metric and get_dimension return for a name they do not find
NoMetric == [name |-> None, sql |-> None, table |-> None]
NoDimension == [name |-> None, table |-> None, key |-> None, attributes |-> <<>>]

Metric(name, sql, table) == [name |-> name, sql |-> sql, table |-> table]

\* attributes is the ordered mapping, a sequence of (name, sql) entries
Dimension(name, table, key, attributes) ==
    [name |-> name, table |-> table, key |-> key, attributes |-> attributes]

Attr(name, sql) == [name |-> name, sql |-> sql]

\* the metrics, dimensions and business terms of a loaded configuration
Catalog ==
    [ metrics |->
          ("total_transactions" :> Metric("total_transactions", "COUNT(*)", "fact_transactions"))
       @@ ("total_deposits" :> Metric("total_deposits", "SUM(ft.deposit)", "fact_transactions"))
       @@ ("total_loan_amount" :> Metric("total_loan_amount", "SUM(fl.loan_amount)", "fact_loans"))
       @@ ("total_investments" :> Metric("total_investments", "SUM(fi.amount)", "fact_investments"))
       @@ ("written_off" :> Metric("written_off", "SUM(fl.written_off)", "FACT_LOANS")),
      dimensions |->
          ("region" :> Dimension("region", "dim_account", "account_key",
                                 <<Attr("region", "d_account.region"),
                                   Attr("account_type", "d_account.account_type")>>))
       @@ ("month_name" :> Dimension("month_name", "dim_date", "date_key",
                                     <<Attr("month_name", "d_date.month_name")>>))
       @@ ("year" :> Dimension("year", "dim_date", "date_key",
                               <<Attr("year", "d_date.year")>>))
       @@ ("transaction_type" :> Dimension("transaction_type", "dim_transaction_type",
                                           "transaction_type_key",
                                           <<Attr("type_name", "d_transaction_type.type_name")>>))
       @@ ("channel" :> Dimension("channel", "dim_channel", "channel_key", <<>>)),
      business_terms |->
          ("loans" :> "total_loan_amount")
       @@ ("inflow" :> "total_deposits")
       @@ ("lending" :> "loans")
       @@ ("area" :> "region")
       @@ ("volume" :> "transaction_volume") ]

\* a lookup that asks the business terms before the metrics
GetMetricTermFirst(cat, metric_name) ==
    IF metric_name \in DOMAIN cat.business_terms
       /\ cat.business_terms[metric_name] \in DOMAIN cat.metrics
    THEN cat.metrics[cat.business_terms[metric_name]]
    ELSE IF metric_name \in DOMAIN cat.metrics THEN cat.metrics[metric_name]
         ELSE NoMetric

\* get_metric: the direct name first, then one step through the business terms
get_metric(cat, metric_name) ==
    IF metric_name \in DOMAIN cat.metrics THEN cat.metrics[metric_name]
    ELSE IF metric_name \in DOMAIN cat.business_terms
            /\ cat.business_terms[metric_name] \in DOMAIN cat.metrics
         THEN cat.metrics[cat.business_terms[metric_name]]
         ELSE NoMetric

\* get_dimension: the direct name first, then one step through the business terms
get_dimension(cat, dim_name) ==
    IF dim_name \in DOMAIN cat.dimensions THEN cat.dimensions[dim_name]
    ELSE IF dim_name \in DOMAIN cat.business_terms
            /\ cat.business_terms[dim_name] \in DOMAIN cat.dimensions
         THEN cat.dimensions[cat.business_terms[dim_name]]
         ELSE NoDimension

\* a configuration whose business terms repeat the names of a metric and of
\* a dimension
ShadowCatalog ==
    [Catalog EXCEPT !.business_terms =
        ("total_deposits" :> "total_loan_amount") @@ ("region" :> "year") @@ @]

\* a configuration with one name registered as a metric and as a dimension
MixedCatalog ==
    [ metrics |-> ("balance" :> Metric("balance", "SUM(ft.balance)", "fact_transactions")),
      dimensions |-> ("balance" :> Dimension("balance", "dim_balance", "balance_key", <<>>)),
      business_terms |-> ("funds" :> "balance") @@ ("area" :> "funds") ]

\* a configuration without metrics, dimensions and business_terms sections
EmptyCatalog == [metrics |-> EmptyDict, dimensions |-> EmptyDict, business_terms |-> EmptyDict]

Catalogs == {Catalog, ShadowCatalog, MixedCatalog, EmptyCatalog}

\* the names looked up in a catalog
LookupNames ==
    {"total_transactions", "total_deposits", "total_loan_amount", "written_off",
     "region", "year", "channel", "balance",
     "loans", "inflow", "lending", "area", "volume", "funds", "unknown", ""}

\* "if metric:" and "if dim:" on what the lookups return
IsFound(x) == x.name # None

RECURSIVE Replace(_, _, _)
\* str.replace(old, new), old not empty
Replace(s, old, new) ==
    IF Len(s) < Len(old) THEN s
    ELSE IF SubSeq(s, 1, Len(old)) = old
         THEN new \o Replace(SubSeq(s, Len(old) + 1, Len(s)), old, new)
         ELSE SubSeq(s, 1, 1) \o Replace(SubSeq(s, 2, Len(s)), old, new)

\* s.split()[-1] if ' ' in s else s, for s that does not end in a blank
LastWord(s) ==
    IF ~ContainsScan(s, " ") THEN s
    ELSE LET blanks == {i \in 1..Len(s) : SubSeq(s, i, i) = " "}
             last == CHOOSE i \in blanks : \A j \in blanks : j <= i
         IN  SubSeq(s, last + 1, Len(s))

\* LowerScan of the table names of the metrics, evaluated once
LowerOfTable ==
    [t \in UNION {{cat.metrics[m].table : m \in DOMAIN cat.metrics} : cat \in Catalogs}
        |-> LowerScan(t)]

\* metric.table.lower()
LowerTable(t) == IF t \in DOMAIN LowerOfTable THEN LowerOfTable[t] ELSE LowerScan(t)

fact_transactions == "fact_transactions ft"
fact_loans == "fact_loans fl"
fact_investments == "fact_investments fi"

RECURSIVE _determine_fact_table(_, _)
\* a selection that prefers any loan metric to an earlier investment metric
FactTableLoanBeforeInvestment(cat, metrics) ==
    LET hit(word) == \E i \in 1..Len(metrics) :
                        /\ IsFound(get_metric(cat, metrics[i]))
                        /\ ContainsScan(LowerTable(get_metric(cat, metrics[i]).table), word)
    IN  IF hit("loan") THEN fact_loans
        ELSE IF hit("investment") THEN fact_investments
        ELSE fact_transactions

\* the loop over intent.metrics: the first resolved metric on a loan or an
\* investment table returns
_determine_fact_table(cat, metrics) ==
    IF Len(metrics) = 0 THEN fact_transactions
    ELSE LET metric == get_metric(cat, Head(metrics))
         IN  IF IsFound(metric) /\ ContainsScan(LowerTable(metric.table), "loan")
             THEN fact_loans
             ELSE IF IsFound(metric) /\ ContainsScan(LowerTable(metric.table), "investment")
             THEN fact_investments
             ELSE _determine_fact_table(cat, Tail(metrics))

\* the default attribute of a dimension: its first attribute, or the name it
\* was asked by when it has none
AttrName(dim, dim_name) ==
    IF Len(dim.attributes) > 0 THEN dim.attributes[1].name ELSE dim_name

\* dim.attributes.get(attr_name, attr_name)
AttrSql(dim, dim_name) ==
    IF Len(dim.attributes) > 0 THEN dim.attributes[1].sql ELSE dim_name

RECURSIVE DimensionSelects(_, _)
\* the loop over intent.group_by that fills select_parts
DimensionSelects(cat, group_by) ==
    IF Len(group_by) = 0 THEN <<>>
    ELSE LET dim == get_dimension(cat, Head(group_by))
         IN  (IF IsFound(dim)
              THEN <<AttrSql(dim, Head(group_by)) \o " AS " \o AttrName(dim, Head(group_by))>>
              ELSE <<>>) \o DimensionSelects(cat, Tail(group_by))

RECURSIVE MetricSelects(_, _)
\* the loop over intent.metrics that fills select_parts
MetricSelects(cat, metrics) ==
    IF Len(metrics) = 0 THEN <<>>
    ELSE LET metric == get_metric(cat, Head(metrics))
         IN  (IF IsFound(metric)
              THEN <<metric.sql \o " AS " \o Head(metrics)>>
              ELSE <<>>) \o MetricSelects(cat, Tail(metrics))

\* a GROUP BY item that names the alias of the select item
GroupByAlias(dim, dim_name) == AttrName(dim, dim_name)

\* the GROUP BY item of a resolved dimension: attr_sql, derived as in the
\* select loop
GroupByExpr(dim, dim_name) == AttrSql(dim, dim_name)

RECURSIVE GroupByParts(_, _)
\* the loop over intent.group_by that fills group_by_parts
GroupByParts(cat, group_by) ==
    IF Len(group_by) = 0 THEN <<>>
    ELSE LET dim == get_dimension(cat, Head(group_by))
         IN  (IF IsFound(dim) THEN <<GroupByExpr(dim, Head(group_by))>> ELSE <<>>)
             \o GroupByParts(cat, Tail(group_by))

\* a test that joins every resolved dimension
ShouldJoinAlways(dim, joined_tables) == IsFound(dim)

\* "if dim and dim.table not in joined_tables"
ShouldJoin(dim, joined_tables) == IsFound(dim) /\ dim.table \notin joined_tables

RECURSIVE DimensionJoins(_, _, _, _)
\* the loop over intent.group_by + intent.dimensions in _build_joins, from
\* the joined_tables collected so far; gives the joins and the final set
DimensionJoins(cat, names, fact_alias, joined_tables) ==
    IF Len(names) = 0 THEN [joins |-> <<>>, joined_tables |-> joined_tables]
    ELSE LET dim == get_dimension(cat, Head(names))
         IN  IF ShouldJoin(dim, joined_tables)
             THEN LET alias == Replace(dim.table, "dim_", "d_")
                      rest == DimensionJoins(cat, Tail(names), fact_alias,
                                             joined_tables \cup {dim.table})
                  IN  [rest EXCEPT !.joins =
                          <<"LEFT JOIN " \o dim.table \o " " \o alias \o " ON "
                            \o fact_alias \o "." \o dim.key \o " = "
                            \o alias \o "." \o dim.key>> \o @]
             ELSE DimensionJoins(cat, Tail(names), fact_alias, joined_tables)

\* _build_joins: the dimension joins, then the transaction type join when a
\* metric name of the intent contains 'deposit' or 'withdrawal'
_build_joins(cat, intent, from_table) ==
    LET fact_alias == LastWord(from_table)
        dims == DimensionJoins(cat, intent.group_by \o intent.dimensions, fact_alias, {})
        typed == \E i \in 1..Len(intent.metrics) :
                    \/ ContainsScan(intent.metrics[i], "deposit")
                    \/ ContainsScan(intent.metrics[i], "withdrawal")
    IN  IF typed /\ "dim_transaction_type" \notin dims.joined_tables
        THEN dims.joins \o <<"LEFT JOIN dim_transaction_type tt ON " \o fact_alias
                             \o ".transaction_type_key = tt.transaction_type_key">>
        ELSE dims.joins

\* _generate_explanation
_generate_explanation(intent) ==
    LET parts ==
            (IF Len(intent.metrics) > 0
             THEN <<"Calculating: " \o Join(", ", intent.metrics)>> ELSE <<>>)
         \o (IF Len(intent.group_by) > 0
             THEN <<"Grouped by: " \o Join(", ", intent.group_by)>> ELSE <<>>)
         \o (IF Len(intent.filters) > 0
             THEN <<"Filters applied: " \o ToString(Len(intent.filters))>> ELSE <<>>)
         \o (IF intent.time_period \notin {None, ""}
             THEN <<"Time period: " \o intent.time_period>> ELSE <<>>)
    IN  IF Len(parts) > 0 THEN Join(" | ", parts) ELSE "Simple query"

\* a select list with the metrics first
SelectPartsMetricsFirst(dimension_items, metric_items) == metric_items \o dimension_items

\* select_parts after the group_by loop and then the metrics loop
SelectParts(dimension_items, metric_items) == dimension_items \o metric_items

\* a select list that is left empty when there are no parts
SelectListNoStar(select_parts) == "  " \o Join(",\n  ", select_parts)

\* "  " + ",\n  ".join(select_parts) if select_parts else "  *"
SelectList(select_parts) ==
    IF Len(select_parts) > 0 THEN "  " \o Join(",\n  ", select_parts) ELSE "  *"

\* intent_to_sql: the SQLQuery it returns, with the lists it was joined from
intent_to_sql(cat, intent) ==
    LET select_parts == SelectParts(DimensionSelects(cat, intent.group_by),
                                    MetricSelects(cat, intent.metrics))
        from_table == _determine_fact_table(cat, intent.metrics)
        joins == _build_joins(cat, intent, from_table)
        where_clauses ==
            intent.filters
            \o (IF intent.time_period \notin {None, ""} THEN <<intent.time_period>> ELSE <<>>)
        group_by_parts == GroupByParts(cat, intent.group_by)
        sql_parts ==
            <<"SELECT">>
            \o <<SelectList(select_parts)>>
            \o <<"FROM " \o from_table>>
            \o joins
            \o (IF Len(where_clauses) > 0
                THEN <<"WHERE " \o Join(" AND ", where_clauses)>> ELSE <<>>)
            \o (IF Len(group_by_parts) > 0
                THEN <<"GROUP BY " \o Join(", ", group_by_parts)>> ELSE <<>>)
            \o (IF ~intent.limit.none /\ intent.limit.n # 0
                THEN <<"LIMIT " \o ToString(intent.limit.n)>> ELSE <<>>)
    IN  [sql |-> Join("\n", sql_parts),
         intent |-> intent,
         explanation |-> _generate_explanation(intent),
         select_parts |-> select_parts,
         from_table |-> from_table,
         joins |-> joins,
         group_by_parts |-> group_by_parts,
         sql_parts |-> sql_parts]

\* the names an intent may carry in metrics: metrics, business terms, names
\* of dimensions and names the catalog does not know
MetricNames ==
    {"total_transactions", "total_loan_amount", "total_investments", "total_deposits",
     "written_off", "loans", "lending", "deposit_fees"}

\* the names an intent may carry in group_by
GroupByNames ==
    {"region", "month_name", "year", "transaction_type", "channel", "area", "branch"}

\* the lists of at most two of the given names
UpToTwo(names) ==
    {<<>>} \cup {<<a>> : a \in names} \cup {<<a, b>> : a \in names, b \in names}

QueryIntent(metrics, dimensions, filters, group_by, time_period, limit) ==
    [metrics |-> metrics, dimensions |-> dimensions, filters |-> filters,
     group_by |-> group_by, time_period |-> time_period, limit |-> limit,
     original_question |-> ""]

\* intents that vary the names, and intents that vary the clauses
Intents ==
    { QueryIntent(m, d, <<>>, g, None, NoLimit) :
        m \in UpToTwo(MetricNames) \cup {<<"volume", "written_off", "total_investments">>},
        g \in UpToTwo(GroupByNames),
        d \in {<<>>, <<"year">>, <<"branch", "region">>, <<"transaction_type">>} }
    \cup
    { QueryIntent(m, <<>>, f, g, t, l) :
        m \in {<<>>, <<"total_transactions">>},
        g \in {<<>>, <<"region">>},
        f \in {<<>>, <<"amount > 100">>, <<"amount > 100", "d_customer.customer_segment = 'Gold'">>},
        t \in {None, "", "d_date.year = 2024"},
        l \in {NoLimit} \cup {Limit(n) : n \in {0, 1, 10, 0 - 1, 0 - 10}} }

\* nothing compiled yet
NotCompiled == [sql |-> None]

\* ------------------------------------------------------------------ state
VARIABLES max_turns, persist_file, history, current_context, turn_counter,
          file, clock, base, added, ret, intent, compiled,
          catalog, calls, serialized

vars == <<max_turns, persist_file, history, current_context, turn_counter,
          file, clock, base, added, ret,
          intent, compiled,
          catalog, calls, serialized>>

TurnFields == {"turn_id", "timestamp", "user_question", "parsed_intent",
               "sql_query", "results_summary", "full_response", "row_count"}

\* datetime.now().isoformat()
Timestamp(t) == "T" \o ToString(t)

\* _summarize_results
_summarize_results(results) ==
    IF Len(results) = 0 THEN "No results"
    ELSE IF Len(results) = 1 THEN ReprRow(results[1])
    ELSE ToString(Len(results)) \o " rows returned. First: " \o ReprRow(results[1])

\* a context that keeps the last rows of the result, results[-10:]
UpdateContextKeepsLastRows(turn, results) ==
    [last_metrics |-> Get(turn.parsed_intent, "metrics", <<>>),
     last_dimensions |-> Get(turn.parsed_intent, "group_by", <<>>),
     last_filters |-> Get(turn.parsed_intent, "filters", <<>>),
     last_time_period |-> Get(turn.parsed_intent, "time_period", None),
     last_sql |-> turn.sql_query,
     last_results |-> IF Len(results) > 0 THEN PySliceFrom(results, -ContextRows) ELSE <<>>,
     last_row_count |-> Len(results),
     last_question |-> turn.user_question]

\* _update_context
_update_context(turn, results) ==
    [last_metrics |-> Get(turn.parsed_intent, "metrics", <<>>),
     last_dimensions |-> Get(turn.parsed_intent, "group_by", <<>>),
     last_filters |-> Get(turn.parsed_intent, "filters", <<>>),
     last_time_period |-> Get(turn.parsed_intent, "time_period", None),
     last_sql |-> turn.sql_query,
     last_results |-> IF Len(results) > 0 THEN PySliceTo(results, ContextRows) ELSE <<>>,
     last_row_count |-> Len(results),
     last_question |-> turn.user_question]

\* --------------------------------------------------------------- json file
\* json.dump(..., default=str) of one result cell
JsonCell(c) == IF c.t \in JsonNative THEN c ELSE [col |-> c.col, t |-> "str", v |-> c.v]

JsonRows(rows) == [i \in DOMAIN rows |-> JsonCell(rows[i])]

JsonContext(ctx) ==
    IF "last_results" \in DOMAIN ctx
    THEN [ctx EXCEPT !.last_results = JsonRows(ctx.last_results)]
    ELSE ctx

NoFile == [kind |-> "absent", data |-> EmptyDict]

\* a save that leaves the counter out of the snapshot
SaveWithoutCounter(h, ctx, counter) ==
    [kind |-> "json_dict",
     data |-> [turns |-> h, context |-> JsonContext(ctx), turn_counter |-> 0]]

\* _save_history: the file contents after open(path, 'w') and json.dump
_save_history(h, ctx, counter) ==
    [kind |-> "json_dict",
     data |-> [turns |-> h, context |-> JsonContext(ctx), turn_counter |-> counter]]

\* a load that assigns context and counter before it builds the turns
LoadContextFirst(persist, f, h0, ctx0, counter0) ==
    LET unchanged == [history |-> h0, current_context |-> ctx0, turn_counter |-> counter0]
    IN  IF ~persist THEN unchanged
        ELSE IF f.kind = "absent" THEN unchanged
        ELSE IF f.kind = "garbage" THEN unchanged
        ELSE IF f.kind # "json_dict" THEN unchanged
        ELSE LET turns == Get(f.data, "turns", <<>>)
                 partial == [history |-> h0,
                             current_context |-> Get(f.data, "context", EmptyDict),
                             turn_counter |-> Get(f.data, "turn_counter", 0)]
             IN  IF \E i \in DOMAIN turns : DOMAIN turns[i] # TurnFields
                 THEN partial
                 ELSE [partial EXCEPT !.history = turns]

\* a load that does not restore the counter
LoadWithoutCounter(persist, f, h0, ctx0, counter0) ==
    LET unchanged == [history |-> h0, current_context |-> ctx0, turn_counter |-> counter0]
    IN  IF ~persist THEN unchanged
        ELSE IF f.kind = "absent" THEN unchanged
        ELSE IF f.kind = "garbage" THEN unchanged
        ELSE IF f.kind # "json_dict" THEN unchanged
        ELSE LET turns == Get(f.data, "turns", <<>>)
             IN  IF \E i \in DOMAIN turns : DOMAIN turns[i] # TurnFields
                 THEN unchanged
                 ELSE [history |-> turns,
                       current_context |-> Get(f.data, "context", EmptyDict),
                       turn_counter |-> counter0]

\* _load_history: the statements of the try block in order; an exception
\* leaves the fields assigned so far and skips the rest
_load_history(persist, f, h0, ctx0, counter0) ==
    LET unchanged == [history |-> h0, current_context |-> ctx0, turn_counter |-> counter0]
    IN  IF ~persist THEN unchanged
        ELSE IF f.kind = "absent" THEN unchanged
        ELSE IF f.kind = "garbage" THEN unchanged           \* json.load raises
        ELSE IF f.kind # "json_dict" THEN unchanged         \* data.get raises
        ELSE LET turns == Get(f.data, "turns", <<>>)
             IN  IF \E i \in DOMAIN turns : DOMAIN turns[i] # TurnFields
                 THEN unchanged                             \* ConversationTurn(**t) raises
                 ELSE [history |-> turns,
                       current_context |-> Get(f.data, "context", EmptyDict),
                       turn_counter |-> Get(f.data, "turn_counter", 0)]

\* __init__
Construct(persist, f) == _load_history(persist, f, <<>>, EmptyDict, 0)

BadTurn == [turn_id |-> 1, user_question |-> "total revenue"]
StaleContext == [last_question |-> "total revenue"]

\* files that exist before the first session and that no session wrote
ForeignFiles ==
    { NoFile,
      [kind |-> "garbage", data |-> EmptyDict],
      [kind |-> "json_list", data |-> EmptyDict],
      [kind |-> "json_dict",
       data |-> [turns |-> <<BadTurn>>, context |-> StaleContext, turn_counter |-> 3]] }

\* the callers of add_turn
Threads == {"a", "b"}

\* no add_turn call in progress
NoCalls == [t \in Threads |-> [pc |-> "idle"]]

NoRet == [op |-> "init", arg |-> "", result |-> ""]

Init ==
    /\ max_turns \in 1..MaxTurnsBound
    /\ persist_file \in BOOLEAN
    /\ file \in (IF persist_file THEN ForeignFiles ELSE {NoFile})
    /\ LET s == Construct(persist_file, file)
       IN  /\ history = s.history
           /\ current_context = s.current_context
           /\ turn_counter = s.turn_counter
    /\ clock = 0
    /\ base = history
    /\ added = <<>>
    /\ ret = NoRet
    /\ intent = QueryIntent(<<>>, <<>>, <<>>, <<>>, None, NoLimit)
    /\ compiled = NotCompiled
    /\ catalog = Catalog
    /\ calls = NoCalls
    /\ serialized = TRUE

\* a trimming that keeps the oldest turns, history[:max_turns]
TrimKeepsOldest(h, m) == IF Len(h) > m THEN PySliceTo(h, m) ELSE h

\* the trimming of add_turn: history[-max_turns:] once the bound is passed
Trim(h, m) == IF Len(h) > m THEN PySliceFrom(h, -m) ELSE h

\* add_turn
AddTurn(inp) ==
    /\ clock < MaxAdds
    /\ clock' = clock + 1
    /\ LET counter == turn_counter + 1
           turn == [turn_id |-> counter,
                    timestamp |-> Timestamp(clock'),
                    user_question |-> inp.question,
                    parsed_intent |-> inp.intent,
                    sql_query |-> inp.sql,
                    results_summary |-> _summarize_results(inp.results),
                    full_response |-> inp.response,
                    row_count |-> Len(inp.results)]
           appended == Append(history, turn)
           ctx == _update_context(turn, inp.results)
           trimmed == Trim(appended, max_turns)
       IN  /\ turn_counter' = counter
           /\ current_context' = ctx
           /\ history' = trimmed
           /\ file' = IF persist_file THEN _save_history(trimmed, ctx, counter) ELSE file
           /\ added' = Append(added, turn)
           /\ ret' = [op |-> "add_turn", arg |-> inp, result |-> turn]
    /\ UNCHANGED <<max_turns, persist_file, base,
                   intent, compiled, catalog, calls, serialized>>

\* a clear that leaves the turn counter as it is
ClearKeepsCounter ==
    /\ history' = <<>>
    /\ current_context' = EmptyDict
    /\ turn_counter' = turn_counter
    /\ file' = IF persist_file THEN _save_history(<<>>, EmptyDict, turn_counter) ELSE file
    /\ base' = <<>>
    /\ added' = <<>>
    /\ ret' = [op |-> "clear", arg |-> "", result |-> None]
    /\ UNCHANGED <<max_turns, persist_file, clock,
                   intent, compiled, catalog, calls, serialized>>

\* clear
Clear ==
    /\ history' = <<>>
    /\ current_context' = EmptyDict
    /\ turn_counter' = 0
    /\ file' = IF persist_file THEN _save_history(<<>>, EmptyDict, 0) ELSE file
    /\ base' = <<>>
    /\ added' = <<>>
    /\ ret' = [op |-> "clear", arg |-> "", result |-> None]
    /\ UNCHANGED <<max_turns, persist_file, clock,
                   intent, compiled, catalog, calls, serialized>>

\* a new session: ConversationMemory(max_turns=m, persist_file=...) on the
\* file the previous session left
Restart(m) ==
    /\ max_turns' = m
    /\ LET s == Construct(persist_file, file)
       IN  /\ history' = s.history
           /\ current_context' = s.current_context
           /\ turn_counter' = s.turn_counter
           /\ base' = s.history
    /\ added' = <<>>
    /\ ret' = [op |-> "init", arg |-> "", result |-> ""]
    /\ UNCHANGED <<persist_file, file, clock,
                   intent, compiled, catalog, calls, serialized>>

IsFollowUp(q) ==
    /\ ret' = [op |-> "is_follow_up", arg |-> q, result |-> is_follow_up(history, q)]
    /\ UNCHANGED <<max_turns, persist_file, history, current_context, turn_counter,
                   file, clock, base, added,
                   intent, compiled, catalog, calls, serialized>>

ResolveFollowUp(q) ==
    /\ ret' = [op |-> "resolve_follow_up", arg |-> q,
               result |-> resolve_follow_up(history, current_context, q)]
    /\ history' = HistoryAfterResolve(history, q)
    /\ UNCHANGED <<max_turns, persist_file, current_context, turn_counter,
                   file, clock, base, added,
                   intent, compiled, catalog, calls, serialized>>

GetContextForLlm ==
    /\ ret' = [op |-> "get_context_for_llm", arg |-> "",
               result |-> get_context_for_llm(history, current_context)]
    /\ UNCHANGED <<max_turns, persist_file, history, current_context, turn_counter,
                   file, clock, base, added,
                   intent, compiled, catalog, calls, serialized>>

\* ------------------------------------------------------------ application
\* the if/elif chain of _build_contextual_intent on the metric words
ContextualMetrics(question_lower, metrics) ==
    IF Contains(question_lower, "deposit") THEN <<"total_deposits">>
    ELSE IF Contains(question_lower, "withdrawal") THEN <<"total_withdrawals">>
    ELSE IF Contains(question_lower, "loan") THEN <<"total_loan_amount">>
    ELSE IF Contains(question_lower, "customer") THEN <<"active_customers">>
    ELSE metrics

\* the if/elif chain of _build_contextual_intent on the grouping phrases
ContextualGroupBy(question_lower, group_by) ==
    IF Contains(question_lower, "by month") THEN <<"month_name">>
    ELSE IF Contains(question_lower, "by year") THEN <<"year">>
    ELSE IF Contains(question_lower, "by region") THEN <<"region">>
    ELSE IF Contains(question_lower, "by segment") \/ Contains(question_lower, "by customer")
         THEN <<"customer_segment">>
    ELSE IF Contains(question_lower, "by account") THEN <<"account_type">>
    ELSE group_by

\* the if/elif chain of _build_contextual_intent on the time phrases
ContextualTimePeriod(question_lower, time_period) ==
    IF Contains(question_lower, "last year") THEN "d_date.year = YEAR(CURRENT_DATE) - 1"
    ELSE IF Contains(question_lower, "this year") THEN "d_date.year = YEAR(CURRENT_DATE)"
    ELSE IF Contains(question_lower, "last month") THEN "d_date.month = MONTH(CURRENT_DATE) - 1"
    ELSE time_period

\* the if/elif chain of _build_contextual_intent on the segment words
ContextualFilters(question_lower, filters) ==
    IF Contains(question_lower, "premium") THEN <<"d_customer.customer_segment = 'Premium'">>
    ELSE IF Contains(question_lower, "gold") THEN <<"d_customer.customer_segment = 'Gold'">>
    ELSE filters

\* _build_contextual_intent
_build_contextual_intent(question, context) ==
    LET question_lower == Lower(question)
        metrics == ContextualMetrics(question_lower, Get(context, "metrics", <<>>))
    IN  [metrics |-> IF Len(metrics) = 0
                     THEN Get(context, "metrics", <<"total_transactions">>)
                     ELSE metrics,
         dimensions |-> <<>>,
         filters |-> ContextualFilters(question_lower, Get(context, "filters", <<>>)),
         group_by |-> ContextualGroupBy(question_lower, Get(context, "group_by", <<>>)),
         time_period |-> ContextualTimePeriod(question_lower,
                                              Get(context, "time_period", None)),
         limit |-> NoLimit,
         original_question |-> question]

\* the questions put to the application
AppQuestions ==
    {"what about Gold", "What About loans", "by customer last month this year",
     "total revenue"}

\* what intent_parser.parse makes of a question: the intent the language
\* model returned
ParsedIntents(question) ==
    { [QueryIntent(<<"total_transactions">>, <<>>, <<"amount > 100">>, <<"region">>,
                   "d_date.year = 2024", Limit(5)) EXCEPT !.original_question = question],
      [QueryIntent(<<>>, <<>>, <<>>, <<>>, None, NoLimit)
           EXCEPT !.original_question = question] }

\* the rows db_manager.execute returns
ResultSets == {<<>>, <<IntRow(7), IntRow(8)>>}

\* generate_natural_response: a fixed sentence for no rows, else the model's
\* answer
generate_natural_response(question, results) ==
    IF Len(results) = 0 THEN "I couldn't find any data matching your question."
    ELSE "answer"

\* the step of process_question that raises, if one does
Faults == {"none", "parse", "compile", "execute", "respond"}

\* a handler that saves the turn whatever happened
CallsAddTurnAlways(fault) == TRUE

\* add_turn is the last statement of the try block: it is reached only when
\* no earlier statement raised
CallsAddTurn(fault) == fault = "none"

\* process_question
ProcessQuestion(question, fault, parsed, rows) ==
    /\ clock < MaxAsks
    /\ IF CallsAddTurn(fault)
       THEN \E follow_up \in {is_follow_up(history, question)} :
            \E context_intent \in {IF follow_up
                                   THEN resolve_follow_up(history, current_context, question)
                                   ELSE EmptyDict} :
            \E asked \in {IF follow_up /\ DOMAIN context_intent # {}
                          THEN _build_contextual_intent(question, context_intent)
                          ELSE parsed} :
            \E sql_query \in {intent_to_sql(catalog, asked)} :
            \E response \in {generate_natural_response(question, rows)} :
            \E turn \in {[turn_id |-> turn_counter + 1,
                          timestamp |-> Timestamp(clock + 1),
                          user_question |-> question,
                          parsed_intent |-> asked,
                          sql_query |-> sql_query.sql,
                          results_summary |-> _summarize_results(rows),
                          full_response |-> response,
                          row_count |-> Len(rows)]} :
            \E ctx \in {_update_context(turn, rows)} :
            \E trimmed \in {Trim(Append(history, turn), max_turns)} :
                /\ clock' = clock + 1
                /\ turn_counter' = turn_counter + 1
                /\ current_context' = ctx
                /\ history' = trimmed
                /\ file' = IF persist_file
                           THEN _save_history(trimmed, ctx, turn_counter + 1)
                           ELSE file
                /\ added' = Append(added, turn)
                /\ ret' = [op |-> "process_question",
                           arg |-> [question |-> question, fault |-> fault],
                           result |-> [status |-> "ok",
                                       contextual |-> follow_up /\ DOMAIN context_intent # {},
                                       context_intent |-> context_intent,
                                       intent |-> asked,
                                       results |-> rows,
                                       response |-> response,
                                       turn |-> turn]]
       ELSE /\ ret' = [op |-> "process_question",
                       arg |-> [question |-> question, fault |-> fault],
                       result |-> [status |-> "error"]]
            /\ UNCHANGED <<history, current_context, turn_counter, file, clock, added>>
    /\ UNCHANGED <<max_turns, persist_file, base, intent, compiled, catalog, calls,
                   serialized>>

\* the application as main_v2 builds it: a memory with a persist file and
\* the loaded catalog
InitApp ==
    /\ max_turns \in 1..MaxTurnsBound
    /\ persist_file = TRUE
    /\ file = NoFile
    /\ LET s == Construct(persist_file, file)
       IN  /\ history = s.history
           /\ current_context = s.current_context
           /\ turn_counter = s.turn_counter
    /\ clock = 0
    /\ base = history
    /\ added = <<>>
    /\ ret = NoRet
    /\ intent = QueryIntent(<<>>, <<>>, <<>>, <<>>, None, NoLimit)
    /\ compiled = NotCompiled
    /\ catalog = Catalog
    /\ calls = NoCalls
    /\ serialized = TRUE

NextApp ==
    \E question \in AppQuestions, fault \in Faults, rows \in ResultSets :
        \E parsed \in ParsedIntents(question) :
            ProcessQuestion(question, fault, parsed, rows)

SpecApp == InitApp /\ [][NextApp]_vars

Next ==
    \/ \E inp \in TurnInputs : AddTurn(inp)
    \/ Clear
    \/ \E m \in 1..MaxTurnsBound : Restart(m)

\* the session's life: construction, turns, resets, restarts
Spec == Init /\ [][Next]_vars

NextAsk ==
    \/ \E inp \in TurnInputs : clock < MaxAsks /\ AddTurn(inp)
    \/ Clear
    \/ \E m \in 1..MaxTurnsBound : Restart(m)
    \/ \E q \in Questions : IsFollowUp(q)
    \/ \E q \in Questions : ResolveFollowUp(q)
    \/ GetContextForLlm

\* the same session, asked about follow-ups between its turns
SpecAsk == Init /\ [][NextAsk]_vars

\* a first session that finds no file: every file a later session loads
\* was saved by an earlier one
InitOwnFile == Init /\ file = NoFile

\* sessions that only ever reload what they saved
SpecOwnFile == InitOwnFile /\ [][Next]_vars

\* a memory constructed with max_turns=0 and no file behind it yet
InitZero ==
    /\ max_turns = 0
    /\ persist_file \in BOOLEAN
    /\ file = NoFile
    /\ LET s == Construct(persist_file, file)
       IN  /\ history = s.history
           /\ current_context = s.current_context
           /\ turn_counter = s.turn_counter
    /\ clock = 0
    /\ base = history
    /\ added = <<>>
    /\ ret = NoRet
    /\ intent = QueryIntent(<<>>, <<>>, <<>>, <<>>, None, NoLimit)
    /\ compiled = NotCompiled
    /\ catalog = Catalog
    /\ calls = NoCalls
    /\ serialized = TRUE

NextZero ==
    \/ \E inp \in TurnInputs : AddTurn(inp)
    \/ Clear
    \/ Restart(0)

\* the session's life when the bound is zero
SpecZero == InitZero /\ [][NextZero]_vars

\* ------------------------------------------- add_turn, statement by statement
\* the caller's lock: with it, a call starts only when no other is under way
MayEnter(t) ==
    serialized => \A u \in Threads \ {t} : calls[u].pc \in {"idle", "done"}

At(t, pc) == calls[t].pc = pc

Goto(t, pc) == calls' = [calls EXCEPT ![t].pc = pc]

\* a thread calls add_turn with its arguments
EnterAddTurn(t, inp) ==
    /\ At(t, "idle")
    /\ MayEnter(t)
    /\ calls' = [calls EXCEPT ![t] = [pc |-> "counter", inp |-> inp]]
    /\ UNCHANGED <<max_turns, persist_file, history, current_context, turn_counter,
                   file, clock, base, added, ret, intent, compiled, catalog, serialized>>

\* a first statement that leaves the counter as it is
KeepCounter(t) ==
    /\ At(t, "counter")
    /\ Goto(t, "turn")
    /\ UNCHANGED <<max_turns, persist_file, history, current_context, turn_counter,
                   file, clock, base, added, ret, intent, compiled, catalog, serialized>>

\* self.turn_counter += 1
IncrementCounter(t) ==
    /\ At(t, "counter")
    /\ turn_counter' = turn_counter + 1
    /\ Goto(t, "turn")
    /\ UNCHANGED <<max_turns, persist_file, history, current_context,
                   file, clock, base, added, ret, intent, compiled, catalog, serialized>>

\* results_summary = ...; turn = ConversationTurn(turn_id=self.turn_counter, ...)
BuildTurn(t) ==
    /\ At(t, "turn")
    /\ clock' = clock + 1
    /\ LET inp == calls[t].inp
           turn == [turn_id |-> turn_counter,
                    timestamp |-> Timestamp(clock'),
                    user_question |-> inp.question,
                    parsed_intent |-> inp.intent,
                    sql_query |-> inp.sql,
                    results_summary |-> _summarize_results(inp.results),
                    full_response |-> inp.response,
                    row_count |-> Len(inp.results)]
       IN  calls' = [calls EXCEPT ![t] = [pc |-> "append", inp |-> inp, turn |-> turn]]
    /\ UNCHANGED <<max_turns, persist_file, history, current_context, turn_counter,
                   file, base, added, ret, intent, compiled, catalog, serialized>>

\* self.history.append(turn)
AppendTurn(t) ==
    /\ At(t, "append")
    /\ history' = Append(history, calls[t].turn)
    /\ Goto(t, "context")
    /\ UNCHANGED <<max_turns, persist_file, current_context, turn_counter,
                   file, clock, base, added, ret, intent, compiled, catalog, serialized>>

\* self._update_context(turn, results)
UpdateContext(t) ==
    /\ At(t, "context")
    /\ current_context' = _update_context(calls[t].turn, calls[t].inp.results)
    /\ Goto(t, "test")
    /\ UNCHANGED <<max_turns, persist_file, history, turn_counter,
                   file, clock, base, added, ret, intent, compiled, catalog, serialized>>

\* if len(self.history) > self.max_turns:
TestLength(t) ==
    /\ At(t, "test")
    /\ Goto(t, IF Len(history) > max_turns THEN "trim" ELSE "save")
    /\ UNCHANGED <<max_turns, persist_file, history, current_context, turn_counter,
                   file, clock, base, added, ret, intent, compiled, catalog, serialized>>

\* self.history = self.history[-self.max_turns:]
TrimHistory(t) ==
    /\ At(t, "trim")
    /\ history' = PySliceFrom(history, -max_turns)
    /\ Goto(t, "save")
    /\ UNCHANGED <<max_turns, persist_file, current_context, turn_counter,
                   file, clock, base, added, ret, intent, compiled, catalog, serialized>>

\* if self.persist_file: self._save_history()
SaveHistory(t) ==
    /\ At(t, "save")
    /\ file' = IF persist_file
               THEN _save_history(history, current_context, turn_counter)
               ELSE file
    /\ Goto(t, "return")
    /\ UNCHANGED <<max_turns, persist_file, history, current_context, turn_counter,
                   clock, base, added, ret, intent, compiled, catalog, serialized>>

\* return turn
ReturnTurn(t) ==
    /\ At(t, "return")
    /\ ret' = [op |-> "add_turn", arg |-> calls[t].inp, result |-> calls[t].turn]
    /\ added' = Append(added, calls[t].turn)
    /\ Goto(t, "done")
    /\ UNCHANGED <<max_turns, persist_file, history, current_context, turn_counter,
                   file, clock, base, intent, compiled, catalog, serialized>>

\* the arguments the two callers pass
RaceInputs ==
    { [question |-> "total revenue", intent |-> FullIntent, sql |-> "SELECT 1",
       results |-> Rows12, response |-> "two rows"],
      [question |-> "What About loans", intent |-> BlankIntent, sql |-> "SELECT 2",
       results |-> <<>>, response |-> "none"] }

\* one memory shared by two callers, who either hold a lock around add_turn
\* or do not
InitRace ==
    /\ serialized \in BOOLEAN
    /\ calls = NoCalls
    /\ max_turns \in 1..MaxTurnsBound
    /\ persist_file \in BOOLEAN
    /\ file = NoFile
    /\ LET s == Construct(persist_file, file)
       IN  /\ history = s.history
           /\ current_context = s.current_context
           /\ turn_counter = s.turn_counter
    /\ clock = 0
    /\ base = history
    /\ added = <<>>
    /\ ret = NoRet
    /\ intent = QueryIntent(<<>>, <<>>, <<>>, <<>>, None, NoLimit)
    /\ compiled = NotCompiled
    /\ catalog = Catalog

NextRace ==
    \E t \in Threads :
        \/ \E inp \in RaceInputs : EnterAddTurn(t, inp)
        \/ IncrementCounter(t)
        \/ BuildTurn(t)
        \/ AppendTurn(t)
        \/ UpdateContext(t)
        \/ TestLength(t)
        \/ TrimHistory(t)
        \/ SaveHistory(t)
        \/ ReturnTurn(t)

SpecRace == InitRace /\ [][NextRace]_vars

\* the semantic layer alone: an intent arrives, intent_to_sql compiles it
InitSql ==
    /\ intent \in Intents
    /\ compiled = NotCompiled
    /\ catalog = Catalog
    /\ calls = NoCalls
    /\ serialized = TRUE
    /\ max_turns = MaxTurnsBound
    /\ persist_file = FALSE
    /\ file = NoFile
    /\ LET s == Construct(persist_file, file)
       IN  /\ history = s.history
           /\ current_context = s.current_context
           /\ turn_counter = s.turn_counter
    /\ clock = 0
    /\ base = history
    /\ added = <<>>
    /\ ret = NoRet

IntentToSql ==
    /\ compiled' = intent_to_sql(catalog, intent)
    /\ UNCHANGED <<max_turns, persist_file, history, current_context, turn_counter,
                   file, clock, base, added, ret, intent, catalog, calls, serialized>>

NextSql == IntentToSql

SpecSql == InitSql /\ [][NextSql]_vars

\* the catalog alone: a configuration is loaded, names are looked up
InitCatalog ==
    /\ catalog \in Catalogs
    /\ intent = QueryIntent(<<>>, <<>>, <<>>, <<>>, None, NoLimit)
    /\ compiled = NotCompiled
    /\ max_turns = MaxTurnsBound
    /\ persist_file = FALSE
    /\ file = NoFile
    /\ LET s == Construct(persist_file, file)
       IN  /\ history = s.history
           /\ current_context = s.current_context
           /\ turn_counter = s.turn_counter
    /\ clock = 0
    /\ base = history
    /\ added = <<>>
    /\ ret = NoRet
    /\ calls = NoCalls
    /\ serialized = TRUE

GetMetric(name) ==
    /\ ret' = [op |-> "get_metric", arg |-> name, result |-> get_metric(catalog, name)]
    /\ UNCHANGED <<max_turns, persist_file, history, current_context, turn_counter,
                   file, clock, base, added, intent, compiled, catalog, calls, serialized>>

GetDimension(name) ==
    /\ ret' = [op |-> "get_dimension", arg |-> name, result |-> get_dimension(catalog, name)]
    /\ UNCHANGED <<max_turns, persist_file, history, current_context, turn_counter,
                   file, clock, base, added, intent, compiled, catalog, calls, serialized>>

NextCatalog ==
    \/ \E name \in LookupNames : GetMetric(name)
    \/ \E name \in LookupNames : GetDimension(name)

SpecCatalog == InitCatalog /\ [][NextCatalog]_vars

\* ------------------------------------------------------------------ claims

\* C1: for max_turns >= 1, once more than max_turns turns have been added to
\* a memory that started empty, history holds exactly max_turns turns and
\* they are the most recently added ones in the order they were added.
HistoryKeepsMostRecent ==
    (max_turns >= 1 /\ base = <<>> /\ Len(added) > max_turns)
        => /\ Len(history) = max_turns
           /\ \A i \in 1..max_turns : history[i] = added[Len(added) - max_turns + i]

HistoryKeepsMostRecentWitness ==
    /\ max_turns = 2 /\ base = <<>> /\ Len(added) = 4
    /\ history = <<added[3], added[4]>>
    /\ added[1].user_question # added[3].user_question

\* C2: in every reachable state with max_turns >= 1, also right after
\* construction from a persisted snapshot, len(history) <= max_turns.
HistoryWithinBound == max_turns >= 1 => Len(history) <= max_turns

\* C3: with a persistence target, on return from add_turn and from clear the
\* file holds the snapshot of the in-memory state of that moment: the
\* retained turns in order, the context and the counter, and nothing else.
SnapshotIsCurrentState ==
    (persist_file /\ ret.op \in {"add_turn", "clear"})
        => /\ file.kind = "json_dict"
           /\ DOMAIN file.data = {"turns", "context", "turn_counter"}
           /\ file.data.turns = history
           /\ file.data.context = JsonContext(current_context)
           /\ file.data.turn_counter = turn_counter

SnapshotIsCurrentStateWitness ==
    /\ persist_file /\ ret.op = "add_turn"
    /\ Len(added) > Len(history) /\ base = <<>>
    /\ file.data.turns = history
    /\ file.data.turn_counter = Len(added)

\* C4: save followed by load is the identity: a memory constructed on the
\* file that _save_history wrote for a history of N >= 1 turns and a
\* non-empty context has the same turns, the same context and the same
\* counter as the memory that wrote it.
RoundTripIsIdentity ==
    [][ ( /\ persist_file
          /\ file = _save_history(history, current_context, turn_counter)
          /\ Len(history) >= 1
          /\ DOMAIN current_context # {}
          /\ ret'.op = "init" )
        => ( /\ history' = history
             /\ current_context' = current_context
             /\ turn_counter' = turn_counter ) ]_vars

\* C5: constructed on a file that exists but cannot be read or parsed into
\* turns, the memory is empty: no turns, no context, counter 0, and never a
\* part of the file's contents.
LoadFailureStartsEmpty ==
    ( /\ persist_file
      /\ ret.op = "init"
      /\ \/ file.kind \in {"garbage", "json_list"}
         \/ /\ file.kind = "json_dict"
            /\ \E i \in DOMAIN file.data.turns : DOMAIN file.data.turns[i] # TurnFields )
        => /\ history = <<>>
           /\ DOMAIN current_context = {}
           /\ turn_counter = 0

LoadFailureStartsEmptyWitness ==
    /\ persist_file /\ ret.op = "init"
    /\ file.kind = "json_dict"
    /\ DOMAIN file.data.turns[1] # TurnFields
    /\ file.data.turn_counter = 3
    /\ history = <<>> /\ turn_counter = 0

\* C6: turn ids are monotonic: add_turn returns a turn whose id is one more
\* than the counter before the call, and in every state reached by add_turn,
\* clear and save-then-reload (max_turns >= 1) the ids in history are
\* consecutive and increasing in list order and the last one is the counter.
TurnIdsMonotonic ==
    /\ [](max_turns >= 1 =>
            \A i \in 1..Len(history) :
                /\ history[i].turn_id = turn_counter - Len(history) + i
                /\ history[i].turn_id >= 1)
    /\ [][(ret'.op = "add_turn" /\ clock' # clock)
            => ret'.result.turn_id = turn_counter + 1]_vars

TurnIdsMonotonicWitness ==
    /\ persist_file /\ ret.op = "init" /\ clock >= 3
    /\ Len(history) = 2 /\ max_turns = 2
    /\ history[1].turn_id = 2 /\ history[2].turn_id = 3 /\ turn_counter = 3

\* C7: after add_turn(question, intent, sql, results, response) the context
\* is the projection of that call and of nothing else: the intent's metrics,
\* group_by, filters and time_period (empty list or None for a missing key),
\* the sql, the question, the number of rows and the first min(10, n) rows.
ContextIsProjection ==
    ret.op = "add_turn" =>
        LET a == ret.arg
            n == Len(a.results)
        IN  current_context =
              [last_metrics |-> IF "metrics" \in DOMAIN a.intent THEN a.intent.metrics ELSE <<>>,
               last_dimensions |-> IF "group_by" \in DOMAIN a.intent THEN a.intent.group_by ELSE <<>>,
               last_filters |-> IF "filters" \in DOMAIN a.intent THEN a.intent.filters ELSE <<>>,
               last_time_period |-> IF "time_period" \in DOMAIN a.intent
                                    THEN a.intent.time_period ELSE None,
               last_sql |-> a.sql,
               last_results |-> [i \in 1..(IF n < 10 THEN n ELSE 10) |-> a.results[i]],
               last_row_count |-> n,
               last_question |-> a.question]

ContextIsProjectionWitness ==
    /\ ret.op = "add_turn" /\ Len(added) >= 2
    /\ Len(ret.arg.results) = 12
    /\ Len(current_context.last_results) = 10
    /\ current_context.last_results[10] = ret.arg.results[10]
    /\ added[Len(added) - 1].parsed_intent # ret.arg.intent

\* C8: clear() returns the session to EMPTY (no turns, no context, counter
\* 0); while the history is empty is_follow_up is false for every question,
\* resolve_follow_up returns the empty mapping and get_context_for_llm the
\* 'No previous conversation.' sentinel; and the history becomes non-empty
\* again only by add_turn.
ClearReturnsToEmpty ==
    /\ [](ret.op = "clear" =>
            /\ history = <<>>
            /\ DOMAIN current_context = {}
            /\ turn_counter = 0)
    /\ [](history = <<>> =>
            /\ ret.op = "is_follow_up" => ret.result = FALSE
            /\ ret.op = "resolve_follow_up" => DOMAIN ret.result = {}
            /\ ret.op = "get_context_for_llm" => ret.result = "No previous conversation.")
    /\ [][(history = <<>> /\ history' # <<>>) => ret'.op = "add_turn"]_vars

ClearReturnsToEmptyWitness ==
    /\ persist_file /\ clock >= 1 /\ history = <<>> /\ turn_counter = 0
    /\ file.kind = "json_dict" /\ file.data.turns = <<>>
    /\ ret.op = "is_follow_up"
    /\ ret.arg = "show me by month and by region"
    /\ ret.result = FALSE

\* C9: is_follow_up(question) is true exactly when the history is non-empty
\* and the lower-cased question contains at least one phrase of the
\* vocabulary; which phrase, how many, and their order do not matter.
FollowUpIsSubstringTest ==
    ret.op = "is_follow_up" =>
        LET hits == {i \in DOMAIN follow_up_indicators :
                        Contains(Lower(ret.arg), follow_up_indicators[i])}
        IN  ret.result = (history # <<>> /\ hits # {})

FollowUpIsSubstringTestWitness ==
    /\ ret.op = "is_follow_up"
    /\ ret.arg = "What About loans"
    /\ history # <<>>
    /\ ret.result = TRUE

\* the grouping and time rules in their listed precedence
GroupByRules ==
    << [phrases |-> {"by month"}, value |-> "month_name"],
       [phrases |-> {"by year"}, value |-> "year"],
       [phrases |-> {"by region"}, value |-> "region"],
       [phrases |-> {"by customer", "by segment"}, value |-> "customer_segment"] >>

TimeRules ==
    << [phrases |-> {"last year"}, value |-> "d_date.year = YEAR(CURRENT_DATE) - 1"],
       [phrases |-> {"this year"}, value |-> "d_date.year = YEAR(CURRENT_DATE)"],
       [phrases |-> {"last month"}, value |-> "d_date.month = MONTH(CURRENT_DATE) - 1"] >>

\* the rules of a table that match the lower-cased question
Matching(rules, question) ==
    {i \in DOMAIN rules : \E p \in rules[i].phrases : Contains(Lower(question), p)}

First(S) == CHOOSE i \in S : \A j \in S : i <= j

\* the result of the last resolve_follow_up call obeys both tables
FirstRuleWins ==
    LET g == Matching(GroupByRules, ret.arg)
        t == Matching(TimeRules, ret.arg)
    IN  /\ g # {} => /\ "group_by" \in DOMAIN ret.result
                     /\ ret.result.group_by = <<GroupByRules[First(g)].value>>
        /\ t # {} => /\ "time_period" \in DOMAIN ret.result
                     /\ ret.result.time_period = TimeRules[First(t)].value

\* C10 (as claimed): in resolve_follow_up with a non-empty history the first
\* matching grouping rule replaces group_by with a one-element list and the
\* first matching time rule replaces time_period.
FollowUpPrecedence ==
    (ret.op = "resolve_follow_up" /\ history # <<>>) => FirstRuleWins

\* C10 (amended): the same, for a non-empty history whose last turn has a
\* non-empty intent; with an empty last intent resolve_follow_up returns the
\* empty mapping and applies no rule.
FollowUpPrecedenceNonEmptyIntent ==
    ( /\ ret.op = "resolve_follow_up"
      /\ history # <<>>
      /\ DOMAIN history[Len(history)].parsed_intent # {} ) => FirstRuleWins

FollowUpPrecedenceWitness ==
    /\ ret.op = "resolve_follow_up"
    /\ ret.arg = "show me by month and by region"
    /\ history # <<>>
    /\ history[Len(history)].parsed_intent = FullIntent
    /\ ret.result.group_by = <<"month_name">>
    /\ ret.result.time_period = FullIntent.time_period

\* the filters of the previous turn, as resolve_follow_up reads them
PreviousIntent == history[Len(history)].parsed_intent

\* the result of the last resolve_follow_up call keeps the previous filters
\* and adds the Premium predicate, else the Gold predicate, at most once
FiltersAugmented ==
    LET prev == IF "filters" \in DOMAIN PreviousIntent THEN PreviousIntent.filters ELSE <<>>
        premium == Contains(Lower(ret.arg), "premium")
        gold == Contains(Lower(ret.arg), "gold")
    IN  /\ "filters" \in DOMAIN ret.result
        /\ Len(ret.result.filters) >= Len(prev)
        /\ premium => ret.result.filters = prev \o <<"customer_segment = 'Premium'">>
        /\ (~premium /\ gold) => ret.result.filters = prev \o <<"customer_segment = 'Gold'">>

\* C11 (as claimed): in resolve_follow_up with a non-empty history the filter
\* rule appends exactly one Premium predicate when the question contains
\* 'premium', otherwise one Gold predicate when it contains 'gold', to the
\* previous filters, and the returned list is never shorter than they are.
FilterRuleAugments ==
    (ret.op = "resolve_follow_up" /\ history # <<>>) => FiltersAugmented

\* C11 (amended): the same, when the last turn has a non-empty intent.
FilterRuleAugmentsNonEmptyIntent ==
    ( /\ ret.op = "resolve_follow_up"
      /\ history # <<>>
      /\ DOMAIN PreviousIntent # {} ) => FiltersAugmented

FilterRuleAugmentsWitness ==
    /\ ret.op = "resolve_follow_up"
    /\ ret.arg = "what about Gold"
    /\ history # <<>>
    /\ PreviousIntent = FullIntent
    /\ ret.result.filters = <<"amount > 100", "customer_segment = 'Gold'">>

\* the result of the last resolve_follow_up call changes no field whose rule
\* group did not match, and never metrics or dimensions
UnmatchedGroupsUnchanged ==
    LET prev == PreviousIntent
        lq == Lower(ret.arg)
        r == ret.result
    IN  /\ DOMAIN r = {"metrics", "dimensions", "group_by", "filters", "time_period",
                       "is_follow_up", "base_question"}
        /\ r.metrics = (IF "metrics" \in DOMAIN prev THEN prev.metrics ELSE <<>>)
        /\ r.dimensions = (IF "dimensions" \in DOMAIN prev THEN prev.dimensions ELSE <<>>)
        /\ Matching(GroupByRules, ret.arg) = {}
              => r.group_by = (IF "group_by" \in DOMAIN prev THEN prev.group_by ELSE <<>>)
        /\ Matching(TimeRules, ret.arg) = {}
              => r.time_period = (IF "time_period" \in DOMAIN prev THEN prev.time_period ELSE None)
        /\ (~Contains(lq, "premium") /\ ~Contains(lq, "gold"))
              => r.filters = (IF "filters" \in DOMAIN prev THEN prev.filters ELSE <<>>)

\* C12 (as claimed): in resolve_follow_up with a non-empty history a rule
\* group that does not match leaves its field as the previous turn had it,
\* and metrics and dimensions always equal the previous turn's.
FollowUpFrame ==
    (ret.op = "resolve_follow_up" /\ history # <<>>) => UnmatchedGroupsUnchanged

\* C12 (amended): the same, when the last turn has a non-empty intent.
FollowUpFrameNonEmptyIntent ==
    ( /\ ret.op = "resolve_follow_up"
      /\ history # <<>>
      /\ DOMAIN PreviousIntent # {} ) => UnmatchedGroupsUnchanged

FollowUpFrameWitness ==
    /\ ret.op = "resolve_follow_up"
    /\ ret.arg = "by customer last month this year"
    /\ history # <<>>
    /\ PreviousIntent = FullIntent
    /\ ret.result.group_by = <<"customer_segment">>
    /\ ret.result.filters = FullIntent.filters
    /\ ret.result.dimensions = FullIntent.dimensions

\* C13: resolve_follow_up only reads the memory: history (with the lists in
\* the last turn's intent), context, counter and file are the same after the
\* call as before, also when the filter rule appends; and the same question
\* asked twice in a row gets equal results.
ResolveIsReadOnly ==
    [][ ret'.op = "resolve_follow_up" =>
          /\ history' = history
          /\ current_context' = current_context
          /\ turn_counter' = turn_counter
          /\ file' = file
          /\ (ret.op = "resolve_follow_up" /\ ret.arg = ret'.arg)
                => ret'.result = ret.result ]_vars

ResolveIsReadOnlyWitness ==
    /\ ret.op = "resolve_follow_up"
    /\ ret.arg = "premium gold last month"
    /\ history # <<>>
    /\ PreviousIntent = FullIntent
    /\ current_context.last_filters = <<"amount > 100">>
    /\ ret.result.filters = <<"amount > 100", "customer_segment = 'Premium'">>

\* ------------------------------------------------- claims on the compiler
Compiled == compiled # NotCompiled

StartsWith(s, p) == Len(s) >= Len(p) /\ SubSeq(s, 1, Len(p)) = p

EndsWith(s, p) == Len(s) >= Len(p) /\ SubSeq(s, Len(s) - Len(p) + 1, Len(s)) = p

\* the k-th smallest member of a set of positions
Kth(S, k) == CHOOSE i \in S : Cardinality({j \in S : j < i}) = k - 1

\* the positions of the names that resolve
ResolvedMetrics(names) == {i \in 1..Len(names) : IsFound(get_metric(Catalog, names[i]))}
ResolvedDimensions(names) == {i \in 1..Len(names) : IsFound(get_dimension(Catalog, names[i]))}

\* the fact table the first hit decides, a hit being a resolved metric whose
\* table name, as given by tableName, contains 'loan' or 'investment'
FirstHitTable(tableName(_)) ==
    LET names == intent.metrics
        isLoan(i) == ContainsScan(tableName(get_metric(Catalog, names[i])), "loan")
        isInv(i) == ContainsScan(tableName(get_metric(Catalog, names[i])), "investment")
        hits == {i \in ResolvedMetrics(names) : isLoan(i) \/ isInv(i)}
    IN  IF hits = {} THEN "fact_transactions ft"
        ELSE IF isLoan(Kth(hits, 1)) THEN "fact_loans fl"
        ELSE "fact_investments fi"

TableAsWritten(metric) == metric.table
TableLowerCased(metric) == LowerScan(metric.table)

\* C15 (as claimed): the first resolved metric, in list order, whose table
\* name contains 'loan' or 'investment' selects the loan or the investment
\* fact table; with no such metric the transactions fact table is used.
FactTableByFirstHit ==
    Compiled => /\ compiled.from_table = FirstHitTable(TableAsWritten)
                /\ compiled.sql_parts[3] = "FROM " \o FirstHitTable(TableAsWritten)

\* C15 (amended): the same, the table name being compared in lower case.
FactTableByFirstHitAnyCase ==
    Compiled => /\ compiled.from_table = FirstHitTable(TableLowerCased)
                /\ compiled.sql_parts[3] = "FROM " \o FirstHitTable(TableLowerCased)

FactTableByFirstHitWitness ==
    /\ Compiled
    /\ intent.metrics = <<"lending", "total_investments">>
    /\ compiled.from_table = "fact_investments fi"

\* the tables of the dimensions of the catalog
DimensionTables == {Catalog.dimensions[d].table : d \in DOMAIN Catalog.dimensions}

\* C16: every dimension table is joined at most once, by one LEFT JOIN at
\* the place of the first name that resolves to it, the names of group_by
\* being scanned before the names of dimensions.
JoinsOncePerTable ==
    Compiled =>
        LET names == intent.group_by \o intent.dimensions
            tableOf(i) == get_dimension(Catalog, names[i]).table
            first == {i \in ResolvedDimensions(names) :
                         \A j \in ResolvedDimensions(names) : j < i => tableOf(j) # tableOf(i)}
            n == Cardinality(first)
            lines(t) == {k \in 1..Len(compiled.joins) :
                            StartsWith(compiled.joins[k], "LEFT JOIN " \o t \o " ")}
        IN  /\ \A t \in DimensionTables : Cardinality(lines(t)) <= 1
            /\ \A i \in ResolvedDimensions(names) : Cardinality(lines(tableOf(i))) = 1
            /\ Len(compiled.joins) >= n
            /\ \A k \in 1..n : lines(tableOf(Kth(first, k))) = {k}
            /\ \A k \in 1..Len(compiled.joins) : compiled.sql_parts[3 + k] = compiled.joins[k]

JoinsOncePerTableWitness ==
    /\ Compiled
    /\ intent.group_by = <<"month_name", "year">>
    /\ intent.dimensions = <<"branch", "region">>
    /\ intent.metrics = <<>>
    /\ compiled.joins = <<"LEFT JOIN dim_date d_date ON ft.date_key = d_date.date_key",
                          "LEFT JOIN dim_account d_account ON ft.account_key = d_account.account_key">>

\* None, an empty string, an empty list or zero
NoClauses ==
    /\ intent.filters = <<>>
    /\ intent.time_period \in {None, ""}
    /\ intent.limit.none \/ intent.limit.n = 0

\* C17: an intent with no resolvable metric and no resolvable group-by
\* dimension compiles to SELECT * FROM the transactions fact table, and an
\* intent with nothing in it compiles to exactly that and no other clause.
EmptyIntentSelectsStar ==
    Compiled =>
        /\ (ResolvedMetrics(intent.metrics) = {} /\ ResolvedDimensions(intent.group_by) = {})
              => /\ StartsWith(compiled.sql, "SELECT\n  *\nFROM fact_transactions ft")
                 /\ compiled.sql_parts[2] = "  *"
                 /\ compiled.sql_parts[3] = "FROM fact_transactions ft"
        /\ (intent.metrics = <<>> /\ intent.dimensions = <<>> /\ intent.group_by = <<>>
            /\ NoClauses)
              => compiled.sql = "SELECT\n  *\nFROM fact_transactions ft"

EmptyIntentSelectsStarWitness ==
    /\ Compiled
    /\ intent.metrics = <<"lending">>
    /\ intent.group_by = <<"branch">>
    /\ intent.dimensions = <<>>
    /\ compiled.sql = "SELECT\n  *\nFROM fact_transactions ft"

\* C18: the SELECT list has one item per resolved group_by dimension, its
\* default attribute expression under the attribute's name, in intent order,
\* then one item per resolved metric, its expression under the name the
\* intent gives, in intent order; a name that does not resolve adds nothing.
SelectListOrder ==
    Compiled =>
        LET G == ResolvedDimensions(intent.group_by)
            M == ResolvedMetrics(intent.metrics)
            g == Cardinality(G)
            m == Cardinality(M)
            dimItem(i) ==
                LET dim == get_dimension(Catalog, intent.group_by[i])
                IN  IF dim.attributes = <<>>
                    THEN intent.group_by[i] \o " AS " \o intent.group_by[i]
                    ELSE dim.attributes[1].sql \o " AS " \o dim.attributes[1].name
            metricItem(i) ==
                get_metric(Catalog, intent.metrics[i]).sql \o " AS " \o intent.metrics[i]
            items == compiled.select_parts
        IN  /\ Len(items) = g + m
            /\ \A k \in 1..g : items[k] = dimItem(Kth(G, k))
            /\ \A k \in 1..m : items[g + k] = metricItem(Kth(M, k))
            /\ g + m > 0 => compiled.sql_parts[2] = "  " \o Join(",\n  ", items)

SelectListOrderWitness ==
    /\ Compiled
    /\ intent.group_by = <<"branch", "area">>
    /\ intent.metrics = <<"lending", "total_investments">>
    /\ compiled.select_parts = <<"d_account.region AS region",
                                 "SUM(fi.amount) AS total_investments">>

\* the intent without the names that do not resolve
Pruned(i) ==
    [i EXCEPT !.metrics = SelectSeq(@, LAMBDA x : IsFound(get_metric(Catalog, x))),
              !.group_by = SelectSeq(@, LAMBDA x : IsFound(get_dimension(Catalog, x))),
              !.dimensions = SelectSeq(@, LAMBDA x : IsFound(get_dimension(Catalog, x)))]

\* C19: deleting from metrics, group_by and dimensions every name that does
\* not resolve gives the same SQL, byte for byte.
UnresolvedNamesLeaveNoTrace ==
    Compiled => compiled.sql = intent_to_sql(Catalog, Pruned(intent)).sql

\* C20: the SQL ends with 'LIMIT n' exactly when the limit is a positive
\* integer n; a limit that is None, zero or negative gives no LIMIT clause.
LimitOnlyWhenPositive ==
    Compiled =>
        LET last == compiled.sql_parts[Len(compiled.sql_parts)]
        IN  IF ~intent.limit.none /\ intent.limit.n > 0
            THEN /\ last = "LIMIT " \o ToString(intent.limit.n)
                 /\ EndsWith(compiled.sql, "\n" \o last)
            ELSE ~StartsWith(last, "LIMIT ")

\* C21: a GROUP BY clause is emitted exactly when a group_by dimension
\* resolves, and it lists, in intent order, the expressions (not the
\* aliases) of the select items of the resolved group_by dimensions.
GroupByMatchesSelect ==
    Compiled =>
        LET G == ResolvedDimensions(intent.group_by)
            g == Cardinality(G)
            parts == compiled.group_by_parts
            clauses == {k \in 1..Len(compiled.sql_parts) :
                           StartsWith(compiled.sql_parts[k], "GROUP BY ")}
            aliasOf(k) ==
                LET dim == get_dimension(Catalog, intent.group_by[Kth(G, k)])
                IN  IF dim.attributes = <<>> THEN intent.group_by[Kth(G, k)]
                    ELSE dim.attributes[1].name
        IN  /\ Len(parts) = g
            /\ \A k \in 1..g : compiled.select_parts[k] = parts[k] \o " AS " \o aliasOf(k)
            /\ (g > 0) <=> (clauses # {})
            /\ \A k \in clauses : compiled.sql_parts[k] = "GROUP BY " \o Join(", ", parts)
            /\ Cardinality(clauses) <= 1

GroupByMatchesSelectWitness ==
    /\ Compiled
    /\ intent.group_by = <<"region", "branch">>
    /\ intent.metrics = <<"total_transactions">>
    /\ intent.dimensions = <<>>
    /\ compiled.sql = "SELECT\n  d_account.region AS region,\n  COUNT(*) AS total_transactions\nFROM fact_transactions ft\nLEFT JOIN dim_account d_account ON ft.account_key = d_account.account_key\nGROUP BY d_account.region"

\* what a two-stage lookup of name gives in a table of entries: the entry
\* registered under name, else the entry its business term names, else none
TwoStage(entries, terms, name, result, none) ==
    /\ name \in DOMAIN entries => result = entries[name]
    /\ (name \notin DOMAIN entries /\ name \in DOMAIN terms /\ terms[name] \in DOMAIN entries)
          => result = entries[terms[name]]
    /\ (name \notin DOMAIN entries /\ name \notin DOMAIN terms) => result = none
    /\ (name \notin DOMAIN entries /\ name \in DOMAIN terms /\ terms[name] \notin DOMAIN entries)
          => result = none

\* C22: get_metric returns the metric registered under the name, else the
\* metric that the name's business term names, else None, never following a
\* second business term or crossing to the dimensions; get_dimension does
\* the same over the dimensions.
ResolutionIsTwoStage ==
    /\ ret.op = "get_metric"
          => TwoStage(catalog.metrics, catalog.business_terms, ret.arg, ret.result, NoMetric)
    /\ ret.op = "get_dimension"
          => TwoStage(catalog.dimensions, catalog.business_terms, ret.arg, ret.result, NoDimension)

ResolutionIsTwoStageWitness ==
    /\ ret.op = "get_metric"
    /\ ret.arg = "total_deposits"
    /\ "total_deposits" \in DOMAIN catalog.business_terms
    /\ ret.result = Catalog.metrics["total_deposits"]

\* C23: in process_question a step that raises leaves history, context,
\* counter and file as they were and records no turn; a question whose steps
\* all succeed appends exactly one turn, built from its results and response.
TurnOnlyOnSuccess ==
    [][ ret'.op = "process_question" =>
          IF ret'.arg.fault # "none"
          THEN /\ ret'.result.status = "error"
               /\ history' = history
               /\ current_context' = current_context
               /\ turn_counter' = turn_counter
               /\ file' = file
               /\ added' = added
          ELSE /\ ret'.result.status = "ok"
               /\ added' = Append(added, ret'.result.turn)
               /\ history' = Trim(Append(history, ret'.result.turn), max_turns)
               /\ turn_counter' = turn_counter + 1
               /\ ret'.result.turn.row_count = Len(ret'.result.results)
               /\ ret'.result.turn.full_response = ret'.result.response
               /\ file'.data.turns = history' ]_vars

TurnOnlyOnSuccessWitness ==
    /\ ret.op = "process_question"
    /\ ret.arg.fault = "execute"
    /\ Len(history) = 1
    /\ turn_counter = 1
    /\ file.data.turn_counter = 1

\* C30: on the follow-up path the intent that process_question compiles has
\* the group_by, time_period and filters that resolve_follow_up returned, so
\* the previous filters are kept and the segment predicate is added once.
FollowUpPathRefinesResolve ==
    (ret.op = "process_question" /\ ret.result.status = "ok" /\ ret.result.contextual)
        => /\ ret.result.intent.group_by = ret.result.context_intent.group_by
           /\ ret.result.intent.time_period = ret.result.context_intent.time_period
           /\ ret.result.intent.filters = ret.result.context_intent.filters

\* C24: a memory constructed with max_turns = 0 has an empty history after
\* every add_turn, so its history never grows.
ZeroBoundKeepsHistoryEmpty ==
    (max_turns = 0 /\ ret.op = "add_turn") => history = <<>>

\* a question triggers a rewrite rule when one of the three chains of
\* resolve_follow_up changes the value it is given
TriggersRewrite(question) ==
    LET question_lower == Lower(question)
    IN  \/ ResolveGroupBy(question_lower, <<"kept">>) # <<"kept">>
        \/ ResolveTimePeriod(question_lower, "kept") # "kept"
        \/ ResolveFilters(question_lower, <<>>) # <<>>

\* C27: whenever the history is non-empty, every question that triggers a
\* rewrite rule of resolve_follow_up is classified as a follow-up by
\* is_follow_up.
DetectionCoversRewriting ==
    (ret.op = "is_follow_up" /\ history # <<>> /\ TriggersRewrite(ret.arg))
        => ret.result = TRUE

\* the business terms that resolve to the catalog entry registered under name
MetricSynonyms(name) ==
    {t \in DOMAIN Catalog.business_terms :
        /\ name \in DOMAIN Catalog.metrics
        /\ get_metric(Catalog, t) = Catalog.metrics[name]}

DimensionSynonyms(name) ==
    {t \in DOMAIN Catalog.business_terms :
        /\ name \in DOMAIN Catalog.dimensions
        /\ get_dimension(Catalog, t) = Catalog.dimensions[name]}

\* the intents obtained from i by replacing one name by one of its synonyms
SynonymVariants(i) ==
    {[i EXCEPT !.metrics[k] = t] :
        <<k, t>> \in {<<k, t>> \in (DOMAIN i.metrics) \X (DOMAIN Catalog.business_terms) :
                        t \in MetricSynonyms(i.metrics[k])}}
    \cup
    {[i EXCEPT !.group_by[k] = t] :
        <<k, t>> \in {<<k, t>> \in (DOMAIN i.group_by) \X (DOMAIN Catalog.business_terms) :
                        t \in DimensionSynonyms(i.group_by[k])}}
    \cup
    {[i EXCEPT !.dimensions[k] = t] :
        <<k, t>> \in {<<k, t>> \in (DOMAIN i.dimensions) \X (DOMAIN Catalog.business_terms) :
                        t \in DimensionSynonyms(i.dimensions[k])}}

\* C28: replacing a metric or dimension name of the intent by a business
\* term that resolves to the same catalog entry leaves the fact table and
\* the list of JOIN clauses unchanged.
SynonymsAreTransparent ==
    Compiled =>
        \A v \in SynonymVariants(intent) :
            LET other == intent_to_sql(Catalog, v)
            IN  /\ other.from_table = compiled.from_table
                /\ other.joins = compiled.joins

\* C29: whenever a metric name of the intent contains 'deposit' or
\* 'withdrawal', the SQL has exactly one join to the transaction-type
\* dimension table and that join binds the alias tt, also when a group_by
\* or dimensions entry already resolves to a dimension backed by that table.
TypedMetricBindsTt ==
    (/\ Compiled
     /\ \E i \in DOMAIN intent.metrics :
            \/ ContainsScan(intent.metrics[i], "deposit")
            \/ ContainsScan(intent.metrics[i], "withdrawal"))
        => LET lines == {k \in DOMAIN compiled.joins :
                            StartsWith(compiled.joins[k], "LEFT JOIN dim_transaction_type ")}
           IN  /\ Cardinality(lines) = 1
               /\ \A k \in lines :
                      StartsWith(compiled.joins[k], "LEFT JOIN dim_transaction_type tt ON ")
               /\ \A k \in lines : compiled.joins[k] \in
                      {compiled.sql_parts[j] : j \in DOMAIN compiled.sql_parts}

\* C26: under sequential add_turn, clear and save-then-reload with
\* max_turns >= 1, the history is empty exactly when the context is empty
\* and exactly when the counter is 0; when the history is non-empty, the
\* context's last_question, last_sql and last_row_count are the
\* user_question, sql_query and row_count of the last turn of the history.
MemoryFieldsAgree ==
    /\ (history = <<>>) <=> (current_context = EmptyDict)
    /\ (history = <<>>) <=> (turn_counter = 0)
    /\ history # <<>> =>
          LET last == history[Len(history)]
          IN  /\ current_context.last_question = last.user_question
              /\ current_context.last_sql = last.sql_query
              /\ current_context.last_row_count = last.row_count

\* a session that reloaded what an earlier one saved after a clear and two
\* more turns
MemoryFieldsAgreeWitness ==
    /\ ret.op = "init"
    /\ persist_file
    /\ file.kind = "json_dict"
    /\ turn_counter = 2
    /\ clock = 3
    /\ history # <<>>
    /\ current_context.last_question = history[Len(history)].user_question

\* no add_turn call is between its first and its last statement
Quiescent == \A t \in Threads : calls[t].pc \in {"idle", "done"}

\* the context describes a turn that is not the last turn of the history
ContextNotLastTurn ==
    /\ history # <<>>
    /\ current_context # EmptyDict
    /\ LET last == history[Len(history)]
       IN  \/ current_context.last_question # last.user_question
           \/ current_context.last_sql # last.sql_query
           \/ current_context.last_row_count # last.row_count

\* two turns of the history carry the same turn id
SharedTurnId ==
    \E i, j \in DOMAIN history : i < j /\ history[i].turn_id = history[j].turn_id

\* C25: when the caller serializes the add_turn calls on one memory, no
\* state between calls has a context that describes a turn other than the
\* last of the history, or two turns with the same id; without the lock,
\* calls interleaved statement by statement reach such a state.
SerializedCallsDoNotRace ==
    (serialized /\ Quiescent) => (~ContextNotLastTurn /\ ~SharedTurnId)

\* two unlocked calls have returned; both turns carry the same id and the
\* context is that of the turn appended first
SerializedCallsDoNotRaceWitness ==
    /\ ~serialized
    /\ \A t \in Threads : calls[t].pc = "done"
    /\ ContextNotLastTurn
    /\ SharedTurnId

====
